---- MODULE Spec2Model ----
(***************************************************************************)
(* MyTasks: the HomeScreen component of app/(tabs)/index.tsx as a state    *)
(* machine.  The state is the component's React state (tasks, newTask,     *)
(* editingText), the handlers suspended on an await (inflight), the mount  *)
(* effect's loadTasks, the AsyncStorage blob and the writes issued to it,  *)
(* and the notification scheduler.  A handler reads the `tasks` of the     *)
(* render it was created in; a handler that awaits keeps that value when   *)
(* it resumes.                                                             *)
(***************************************************************************)
EXTENDS Integers, Sequences, FiniteSets, TLC

VARIABLES
    tasks,        \* useState<Task[]>: the in-memory collection
    newTask,      \* useState(""): text of the new-task input
    editingText,  \* useState(""): the shared edit buffer
    load,         \* the mount effect's loadTasks: position and value read
    inflight,     \* handlers suspended on an await, with their closure
    stored,       \* the AsyncStorage item "tasks"
    writes,       \* number of AsyncStorage.setItem calls made
    saveErrors,   \* number of setItem calls that failed ("Error saving tasks")
    scheduled,    \* notification ids scheduled and not cancelled
    issued,       \* number of notification ids handed out so far
    schedReqs,    \* number of scheduleNotificationAsync calls made
    cancelReqs,   \* ids passed to cancelScheduledNotificationAsync, in order
    now,          \* the last reading of Date.now()
    nOps,         \* number of user events dispatched
    lastOp        \* the handler that ran last, and the closure it used

vars == <<tasks, newTask, editingText, load, inflight, stored, writes,
          saveErrors, scheduled, issued, schedReqs, cancelReqs, now, nOps, lastOp>>

\* ------------------------------------------------------------- bounds

MaxOps == 3
MaxClock == 2

\* ------------------------------------------------------------- values

\* notificationId is optional: this is the absent (undefined) value.
NoHandle == 0

Space == " "

\* The texts the user types into the new-task input (empty, blank, padded)
\* and into the edit input (blank, padded).
Inputs == { <<>>, <<Space>>, <<Space, "a", Space>> }
Edits == { <<Space>>, <<"b", Space>> }

Priorities == <<"low", "medium", "high">>

Digits == <<"0", "1", "2", "3", "4", "5", "6", "7", "8", "9">>

\* Number.prototype.toString: the decimal digits of n.
RECURSIVE ToStr(_)
ToStr(n) ==
    IF n < 10 THEN <<Digits[n + 1]>>
    ELSE ToStr(n \div 10) \o <<Digits[(n % 10) + 1]>>

\* String.prototype.trim: drops leading and trailing white space.
RECURSIVE TrimLeft(_)
TrimLeft(s) ==
    IF s # <<>> /\ Head(s) = Space THEN TrimLeft(Tail(s)) ELSE s

RECURSIVE TrimRight(_)
TrimRight(s) ==
    IF s # <<>> /\ s[Len(s)] = Space
    THEN TrimRight(SubSeq(s, 1, Len(s) - 1))
    ELSE s

\* Faulty variant of Trim: the text is taken as typed.
TrimNone(s) == s

Trim(s) == TrimRight(TrimLeft(s))

\* JavaScript truthiness of the optional isEditing flag, and `!`.
Truthy(v) == v = "true"
Not(v) == IF Truthy(v) THEN "false" ELSE "true"

\* Array.prototype.filter and Array.prototype.map over a sequence.
RECURSIVE FilterOut(_, _)
FilterOut(ts, id) ==
    IF ts = <<>> THEN <<>>
    ELSE IF Head(ts).id # id
         THEN <<Head(ts)>> \o FilterOut(Tail(ts), id)
         ELSE FilterOut(Tail(ts), id)

Remove(s, i) == SubSeq(s, 1, i - 1) \o SubSeq(s, i + 1, Len(s))

HasId(ts, id) == \E i \in DOMAIN ts : ts[i].id = id

\* Array.prototype.find: the first task with that id.
Find(ts, id) == ts[CHOOSE i \in DOMAIN ts :
                     /\ ts[i].id = id
                     /\ \A j \in 1..(i - 1) : ts[j].id # id]

\* ------------------------------------------------------------- the blob

Absent == [kind |-> "absent"]      \* getItem resolves null
Corrupt == [kind |-> "corrupt"]    \* a string JSON.parse throws on

\* Faulty variant of StringifyTask: the notification id is not written.
StringifyTaskNoId(t) ==
    [id |-> t.id, text |-> t.text, completed |-> t.completed,
     priority |-> t.priority]
    @@ (IF t.isEditing = "undefined" THEN <<>>
        ELSE "isEditing" :> t.isEditing)

\* JSON.stringify of one task: a key whose value is undefined is left out.
StringifyTask(t) ==
    [id |-> t.id, text |-> t.text, completed |-> t.completed,
     priority |-> t.priority]
    @@ (IF t.notificationId = NoHandle THEN <<>>
        ELSE "notificationId" :> t.notificationId)
    @@ (IF t.isEditing = "undefined" THEN <<>>
        ELSE "isEditing" :> t.isEditing)

Stringify(ts) ==
    [kind |-> "json", items |-> [i \in DOMAIN ts |-> StringifyTask(ts[i])]]

\* JSON.parse of one record: a key that is missing reads as undefined.
ParseTask(e) ==
    [id |-> e.id, text |-> e.text, completed |-> e.completed,
     notificationId |-> IF "notificationId" \in DOMAIN e
                        THEN e.notificationId ELSE NoHandle,
     priority |-> e.priority,
     isEditing |-> IF "isEditing" \in DOMAIN e
                   THEN e.isEditing ELSE "undefined"]

Parse(b) == [i \in DOMAIN b.items |-> ParseTask(b.items[i])]

\* ------------------------------------------------------------- handlers' results

\* addTask: the task it builds (isEditing is not set).
\* Faulty variant of NewTaskItem: the notification id is not kept on the task.
NewTaskItemNoId(text, nid, clock) ==
    [id |-> ToStr(clock), text |-> Trim(text), completed |-> FALSE,
     notificationId |-> NoHandle, priority |-> "medium",
     isEditing |-> "undefined"]

NewTaskItem(text, nid, clock) ==
    [id |-> ToStr(clock), text |-> Trim(text), completed |-> FALSE,
     notificationId |-> nid, priority |-> "medium",
     isEditing |-> "undefined"]

\* Faulty variant of AddResult: the earlier tasks are not spread into the array.
AddResultAlone(ts, text, nid, clock) == <<NewTaskItem(text, nid, clock)>>

\* addTask: [...tasks, newTaskItem]
AddResult(ts, text, nid, clock) == Append(ts, NewTaskItem(text, nid, clock))

\* Faulty variant of EditModeResult: the flag is negated without comparing ids.
EditModeResultAll(ts, id) ==
    [i \in DOMAIN ts |-> [ts[i] EXCEPT !.isEditing = Not(@)]]

\* toggleEditMode: the addressed task's flag is negated, the others cleared.
EditModeResult(ts, id) ==
    [i \in DOMAIN ts |->
        [ts[i] EXCEPT !.isEditing = IF ts[i].id = id THEN Not(@) ELSE "false"]]

\* Faulty variant of UpdateTextResult: the text is stored as typed.
UpdateTextResultAsTyped(ts, id, text) ==
    [i \in DOMAIN ts |->
        IF ts[i].id = id
        THEN [ts[i] EXCEPT !.text = text, !.isEditing = "false"]
        ELSE ts[i]]

\* updateTaskText: the addressed task gets the trimmed text and leaves edit mode.
UpdateTextResult(ts, id, text) ==
    [i \in DOMAIN ts |->
        IF ts[i].id = id
        THEN [ts[i] EXCEPT !.text = Trim(text), !.isEditing = "false"]
        ELSE ts[i]]

\* updateTaskPriority
\* Faulty variant of UpdatePriorityResult: the id is not compared.
UpdatePriorityResultAll(ts, id, priority) ==
    [i \in DOMAIN ts |-> [ts[i] EXCEPT !.priority = priority]]

UpdatePriorityResult(ts, id, priority) ==
    [i \in DOMAIN ts |->
        IF ts[i].id = id THEN [ts[i] EXCEPT !.priority = priority] ELSE ts[i]]

\* Faulty variant of NextPriority: the button steps backwards through the list.
NextPriorityBack(p) ==
    LET currentIndex == (CHOOSE k \in DOMAIN Priorities : Priorities[k] = p) - 1
    IN  Priorities[((currentIndex + 2) % Len(Priorities)) + 1]

\* The priority button: priorities[(indexOf(priority) + 1) % length]
NextPriority(p) ==
    LET currentIndex == (CHOOSE k \in DOMAIN Priorities : Priorities[k] = p) - 1
    IN  Priorities[((currentIndex + 1) % Len(Priorities)) + 1]

\* Faulty variant of ToggleResult: the addressed task is marked completed.
ToggleResultSet(ts, id) ==
    [i \in DOMAIN ts |->
        IF ts[i].id = id THEN [ts[i] EXCEPT !.completed = TRUE] ELSE ts[i]]

\* toggleTask: the addressed task's completed flag is negated.
ToggleResult(ts, id) ==
    [i \in DOMAIN ts |->
        IF ts[i].id = id THEN [ts[i] EXCEPT !.completed = ~@] ELSE ts[i]]

\* Faulty variant of ToggleCancels: nothing is cancelled.
ToggleCancelsNone(ts, id) == <<>>

\* toggleTask: the ids it cancels, in the order of the map: those of the
\* addressed tasks that are not completed and hold a notification id.
RECURSIVE ToggleCancels(_, _)
ToggleCancels(ts, id) ==
    IF ts = <<>> THEN <<>>
    ELSE (IF Head(ts).id = id /\ ~Head(ts).completed
             /\ Head(ts).notificationId # NoHandle
          THEN <<Head(ts).notificationId>> ELSE <<>>)
         \o ToggleCancels(Tail(ts), id)

\* deleteTask: tasks.filter(task => task.id !== id)
DeleteResult(ts, id) == FilterOut(ts, id)

Range(s) == { s[i] : i \in DOMAIN s }

\* ------------------------------------------------------------- initial state

NoOp == [kind |-> "none", id |-> <<>>, text |-> <<>>, pre |-> <<>>]

Op(kind, id, text, pre) == [kind |-> kind, id |-> id, text |-> text, pre |-> pre]

Init ==
    /\ tasks = <<>>
    /\ newTask = <<>>
    /\ editingText = <<>>
    /\ load = [at |-> "reading"]
    /\ inflight = <<>>
    /\ stored = Absent
    /\ writes = 0
    /\ saveErrors = 0
    /\ scheduled = {}
    /\ issued = 0
    /\ schedReqs = 0
    /\ cancelReqs = <<>>
    /\ now = 1
    /\ nOps = 0
    /\ lastOp = NoOp

\* ------------------------------------------------------------- gateways

\* saveTasks: one AsyncStorage.setItem call carrying JSON.stringify(updatedTasks).
\* The handler does not await it.  The call takes effect, or it fails (the
\* catch logs the error) and the item keeps its value.  AsyncStorage runs its
\* calls one after the other in the order they were made, so a call is
\* settled here when it is made.
saveTasks(updatedTasks) ==
    /\ writes' = writes + 1
    /\ \E ok \in BOOLEAN :
          /\ stored' = IF ok THEN Stringify(updatedTasks) ELSE stored
          /\ saveErrors' = IF ok THEN saveErrors ELSE saveErrors + 1

\* Notifications.cancelScheduledNotificationAsync(ids...): the requests are
\* recorded; when the scheduler honours them the ids stop being scheduled.
cancelScheduled(ids, ok) ==
    /\ cancelReqs' = cancelReqs \o ids
    /\ scheduled' = IF ok THEN scheduled \ Range(ids) ELSE scheduled

\* Date.now(): a reading not before the last one.
Readings == now..MaxClock

\* ------------------------------------------------------------- loadTasks

\* loadTasks up to its await: AsyncStorage.getItem("tasks") resolves with the
\* item as it is now, or rejects.
loadTasksRead ==
    /\ load.at = "reading"
    /\ \E ok \in BOOLEAN :
          load' = IF ok THEN [at |-> "read", val |-> stored]
                        ELSE [at |-> "failed", val |-> Absent]
    /\ UNCHANGED <<tasks, newTask, editingText, inflight, stored, writes, saveErrors,
                   scheduled, issued, schedReqs, cancelReqs, now, nOps, lastOp>>

\* What loadTasks leaves in `tasks` after the await: the parsed blob when there
\* is one and it parses; otherwise (null, a rejected read, a parse error that
\* the catch swallows) setTasks is not called.
LoadResult(ts, l) ==
    IF l.at = "read" /\ l.val.kind = "json" THEN Parse(l.val) ELSE ts

\* How loadTasks went: the read rejected, resolved null, gave a string that
\* does not parse, or gave one that parses.
LoadOutcome(l) ==
    IF l.at = "failed" THEN "loadFailed"
    ELSE IF l.val.kind = "json" THEN "loadParsed"
    ELSE IF l.val.kind = "corrupt" THEN "loadUnparsed"
    ELSE "loadNone"

loadTasksResume ==
    /\ load.at \in {"read", "failed"}
    /\ tasks' = LoadResult(tasks, load)
    /\ load' = [at |-> "done", val |-> Absent]
    /\ lastOp' = Op(LoadOutcome(load), <<>>, <<>>, tasks)
    /\ UNCHANGED <<newTask, editingText, inflight, stored, writes, saveErrors, scheduled,
                   issued, schedReqs, cancelReqs, now, nOps>>

\* ------------------------------------------------------------- addTask

Suspended(kind, ts, id, text, nid, ok) ==
    [kind |-> kind, tasks |-> ts, id |-> id, text |-> text, nid |-> nid, ok |-> ok]

\* The user types `text` and submits.  addTask returns at once when the text
\* trims to nothing; otherwise it calls scheduleNotification, which resolves
\* with a new notification id or, when scheduling throws, with null, and
\* addTask is suspended on the await with the tasks and text of its render.
addTask(text) ==
    /\ nOps < MaxOps
    /\ nOps' = nOps + 1
    /\ newTask' = text
    /\ IF Len(Trim(text)) = 0
       THEN /\ lastOp' = Op("addEmpty", <<>>, text, tasks)
            /\ UNCHANGED <<inflight, scheduled, issued, schedReqs>>
       ELSE /\ schedReqs' = schedReqs + 1
            /\ \E ok \in BOOLEAN :
                  /\ issued' = IF ok THEN issued + 1 ELSE issued
                  /\ scheduled' = IF ok THEN scheduled \cup {issued + 1}
                                        ELSE scheduled
                  /\ inflight' = Append(inflight,
                        Suspended("add", tasks, <<>>, text,
                                  IF ok THEN issued + 1 ELSE NoHandle, ok))
            /\ lastOp' = Op("addCall", <<>>, text, tasks)
    /\ UNCHANGED <<tasks, editingText, load, stored, writes, saveErrors, cancelReqs, now>>

\* addTask after the await: builds the task, appends it to the tasks of its
\* closure, sets and saves the result, clears the input.
addTaskResume(k) ==
    /\ inflight[k].kind = "add"
    /\ \E clock \in Readings :
          LET op == inflight[k]
              updatedTasks == AddResult(op.tasks, op.text, op.nid, clock)
          IN  /\ now' = clock
              /\ tasks' = updatedTasks
              /\ saveTasks(updatedTasks)
              /\ lastOp' = Op("add", ToStr(clock), op.text, op.tasks)
    /\ newTask' = <<>>
    /\ inflight' = Remove(inflight, k)
    /\ UNCHANGED <<editingText, load, scheduled, issued, schedReqs,
                   cancelReqs, nOps>>

\* ------------------------------------------------------------- editing

\* The edit button of row i: toggleEditMode(task.id, task.text).
toggleEditMode(i) ==
    /\ nOps < MaxOps
    /\ nOps' = nOps + 1
    /\ tasks' = EditModeResult(tasks, tasks[i].id)
    /\ editingText' = tasks[i].text
    /\ lastOp' = Op("edit", tasks[i].id, tasks[i].text, tasks)
    /\ UNCHANGED <<newTask, load, inflight, stored, writes, saveErrors, scheduled, issued,
                   schedReqs, cancelReqs, now>>

\* Row i shows the edit input (it is in edit mode); the user leaves the buffer
\* as it is or types `text`, and submits: updateTaskText(task.id).
updateTaskText(i, text) ==
    /\ nOps < MaxOps
    /\ Truthy(tasks[i].isEditing)
    /\ nOps' = nOps + 1
    /\ IF Len(Trim(text)) = 0
       THEN /\ editingText' = text
            /\ lastOp' = Op("commitEmpty", tasks[i].id, text, tasks)
            /\ UNCHANGED <<tasks, stored, writes, saveErrors>>
       ELSE LET updatedTasks == UpdateTextResult(tasks, tasks[i].id, text)
            IN  /\ tasks' = updatedTasks
                /\ saveTasks(updatedTasks)
                /\ editingText' = <<>>
                /\ lastOp' = Op("commit", tasks[i].id, text, tasks)
    /\ UNCHANGED <<newTask, load, inflight, scheduled, issued,
                   schedReqs, cancelReqs, now>>

\* ------------------------------------------------------------- priority

\* The priority button of row i: updateTaskPriority(task.id, nextPriority).
updateTaskPriority(i) ==
    /\ nOps < MaxOps
    /\ nOps' = nOps + 1
    /\ LET updatedTasks ==
               UpdatePriorityResult(tasks, tasks[i].id,
                                    NextPriority(tasks[i].priority))
       IN  /\ tasks' = updatedTasks
           /\ saveTasks(updatedTasks)
    /\ lastOp' = Op("priority", tasks[i].id, <<>>, tasks)
    /\ UNCHANGED <<newTask, editingText, load, inflight, scheduled,
                   issued, schedReqs, cancelReqs, now>>

\* ------------------------------------------------------------- toggleTask

\* The checkbox of row i: toggleTask(task.id).  The cancel calls are made
\* inside the map and not awaited; a rejection goes unobserved.
toggleTask(i) ==
    /\ nOps < MaxOps
    /\ nOps' = nOps + 1
    /\ \E ok \in BOOLEAN :
          cancelScheduled(ToggleCancels(tasks, tasks[i].id), ok)
    /\ LET updatedTasks == ToggleResult(tasks, tasks[i].id)
       IN  /\ tasks' = updatedTasks
           /\ saveTasks(updatedTasks)
    /\ lastOp' = Op("toggle", tasks[i].id, <<>>, tasks)
    /\ UNCHANGED <<newTask, editingText, load, inflight, issued,
                   schedReqs, now>>

\* ------------------------------------------------------------- deleteTask

\* The delete button of row i: deleteTask(task.id).  With no notification id
\* on the task found, the handler runs to its end without suspending.
\* Otherwise it awaits the cancel call, which resolves or rejects.
deleteTask(i) ==
    /\ nOps < MaxOps
    /\ nOps' = nOps + 1
    /\ LET id == tasks[i].id
           taskToDelete == Find(tasks, id)
       IN  IF taskToDelete.notificationId = NoHandle
           THEN LET updatedTasks == DeleteResult(tasks, id)
                IN  /\ tasks' = updatedTasks
                    /\ saveTasks(updatedTasks)
                    /\ lastOp' = Op("remove", id, <<>>, tasks)
                    /\ UNCHANGED <<inflight, scheduled, cancelReqs>>
           ELSE /\ \E ok \in BOOLEAN :
                      /\ cancelScheduled(<<taskToDelete.notificationId>>, ok)
                      /\ inflight' = Append(inflight,
                            Suspended("delete", tasks, id, <<>>,
                                      taskToDelete.notificationId, ok))
                /\ lastOp' = Op("removeCall", id, <<>>, tasks)
                /\ UNCHANGED <<tasks, stored, writes, saveErrors>>
    /\ UNCHANGED <<newTask, editingText, load, issued, schedReqs, now>>

\* deleteTask after the await.  When the cancel call rejected, the await
\* throws, nothing catches it, and the rest of the handler does not run.
deleteTaskResume(k) ==
    /\ inflight[k].kind = "delete"
    /\ LET op == inflight[k]
           updatedTasks == DeleteResult(op.tasks, op.id)
       IN  IF op.ok
           THEN /\ tasks' = updatedTasks
                /\ saveTasks(updatedTasks)
                /\ lastOp' = Op("remove", op.id, <<>>, op.tasks)
           ELSE /\ lastOp' = Op("removeFailed", op.id, <<>>, op.tasks)
                /\ UNCHANGED <<tasks, stored, writes, saveErrors>>
    /\ inflight' = Remove(inflight, k)
    /\ UNCHANGED <<newTask, editingText, load, scheduled, issued,
                   schedReqs, cancelReqs, now, nOps>>

\* ------------------------------------------------------------- specification

Next ==
    \/ loadTasksRead
    \/ loadTasksResume
    \/ \E text \in Inputs : addTask(text)
    \/ \E k \in DOMAIN inflight : addTaskResume(k)
    \/ \E i \in DOMAIN tasks : toggleEditMode(i)
    \/ \E i \in DOMAIN tasks : \E text \in Edits \cup {editingText} :
          updateTaskText(i, text)
    \/ \E i \in DOMAIN tasks : updateTaskPriority(i)
    \/ \E i \in DOMAIN tasks : toggleTask(i)
    \/ \E i \in DOMAIN tasks : deleteTask(i)
    \/ \E k \in DOMAIN inflight : deleteTaskResume(k)

Spec == Init /\ [][Next]_vars

\* ------------------------------------------------------------- properties
\* lastOp names the handler step that ran last and the tasks of its closure
\* (lastOp.pre); every step that sets `tasks` sets lastOp, so a predicate on
\* lastOp and tasks describes the state right after that step.

Blank(s) == \A i \in DOMAIN s : s[i] = Space

Editing(ts) == { i \in DOMAIN ts : Truthy(ts[i].isEditing) }

\* C1: an add whose text does not trim to nothing ends with the collection it
\* was invoked on extended by exactly one task, the last one, which is not
\* completed, has priority medium and carries the trimmed text.
C1_AddAppendsOne ==
    lastOp.kind = "add" =>
        /\ ~Blank(lastOp.text)
        /\ Len(tasks) = Len(lastOp.pre) + 1
        /\ SubSeq(tasks, 1, Len(lastOp.pre)) = lastOp.pre
        /\ tasks[Len(tasks)].completed = FALSE
        /\ tasks[Len(tasks)].priority = "medium"
        /\ tasks[Len(tasks)].text = Trim(lastOp.text)
        /\ ~Blank(tasks[Len(tasks)].text)

\* C1's case: an add has completed on a collection that held a task.
C1_Witness ==
    /\ lastOp.kind = "add"
    /\ Len(lastOp.pre) = 1
    /\ Len(tasks) = 2
    /\ lastOp.text # Trim(lastOp.text)

\* C2: an add whose text is empty or all white space changes neither the
\* collection nor the scheduler nor the store: no schedule request, no write,
\* no suspended handler.
C2_BlankAddIsNoOp ==
    [][ (nOps' = nOps + 1 /\ lastOp'.kind \in {"addEmpty", "addCall"}
            /\ Blank(lastOp'.text))
        => UNCHANGED <<tasks, schedReqs, scheduled, issued, writes, stored,
                       inflight, cancelReqs>> ]_vars

\* C2's case: a white-space text was submitted on a collection holding a task.
C2_Witness ==
    /\ lastOp.kind = "addEmpty"
    /\ lastOp.text = <<Space>>
    /\ Len(tasks) = 1

\* C3: no two tasks of the collection have the same id.
C3_UniqueIds ==
    \A i, j \in DOMAIN tasks : i # j => tasks[i].id # tasks[j].id

\* C4: a remove of an id in the collection it was invoked on ends with that
\* collection less exactly the one task with that id, the others in their
\* order; a remove of an id not in it ends with it unchanged.
C4_RemoveExactlyOne ==
    lastOp.kind \in {"remove", "removeFailed"} =>
        IF HasId(lastOp.pre, lastOp.id)
        THEN /\ Len(tasks) = Len(lastOp.pre) - 1
             /\ \E i \in DOMAIN lastOp.pre :
                   /\ lastOp.pre[i].id = lastOp.id
                   /\ tasks = Remove(lastOp.pre, i)
        ELSE tasks = lastOp.pre

\* C5: at most one task is in edit mode.
C5_OneEditing == Cardinality(Editing(tasks)) <= 1

\* C5's case: edit mode was toggled on a collection of two tasks and one of
\* them is in edit mode.
C5_Witness ==
    /\ lastOp.kind = "edit"
    /\ Len(tasks) = 2
    /\ Cardinality(Editing(tasks)) = 1

\* C6: handlers are serialized, so each one computes the new collection from
\* the collection the handler before it left: the tasks of its closure are the
\* tasks in memory when it sets them.
C6_ComputesFromCurrent ==
    [][ lastOp' # lastOp => lastOp'.pre = tasks ]_vars

\* C7: a failing gateway call never blocks the mutation: when a handler has
\* finished, the collection is the one it produces when every call succeeds.
\* For a remove whose cancel call failed it is the collection less the task.
C7_FailureNeverBlocks ==
    /\ lastOp.kind \in {"remove", "removeFailed"} =>
          /\ ~HasId(tasks, lastOp.id)
          /\ tasks = DeleteResult(lastOp.pre, lastOp.id)
    /\ lastOp.kind = "add" => tasks = lastOp.pre \o <<tasks[Len(tasks)]>>
    /\ lastOp.kind = "priority" =>
          \E q \in Range(Priorities) :
              tasks = UpdatePriorityResult(lastOp.pre, lastOp.id, q)
    /\ lastOp.kind = "commit" =>
          tasks = UpdateTextResult(lastOp.pre, lastOp.id, lastOp.text)
    /\ lastOp.kind = "toggle" => tasks = ToggleResult(lastOp.pre, lastOp.id)

Count(s, x) == Cardinality({ i \in DOMAIN s : s[i] = x })

\* The tasks a toggle of `id` moves from not completed to completed while they
\* hold a notification id.
Completing(ts, id) ==
    { i \in DOMAIN ts : /\ ts[i].id = id
                        /\ ~ts[i].completed
                        /\ ts[i].notificationId # NoHandle }

C9_ToggleTwiceRestores ==
    [][ (/\ lastOp.kind = "toggle"
         /\ nOps' = nOps + 1
         /\ lastOp'.kind = "toggle"
         /\ lastOp'.id = lastOp.id)
        => tasks' = lastOp.pre ]_vars

\* C9's case: the last step toggled a task back to not completed whose
\* notification had been requested cancelled when it was completed.
C9_Witness ==
    /\ lastOp.kind = "toggle"
    /\ \E i \in DOMAIN tasks :
          /\ tasks[i].id = lastOp.id
          /\ ~tasks[i].completed
          /\ lastOp.pre[i].completed
          /\ tasks[i].notificationId \in Range(cancelReqs)

Trimmed(s) == s # <<>> /\ s[1] # Space /\ s[Len(s)] # Space

TextsOf(ts) == [i \in DOMAIN ts |-> ts[i].text]

\* C10: every task's text is non-empty and has no white space at either end;
\* a blank add or commit and every step other than add and commit leave the
\* texts as they were, and a commit stores the trimmed text.
C10_TextsTrimmed ==
    /\ \A i \in DOMAIN tasks : Trimmed(tasks[i].text)
    /\ lastOp.kind \in {"addEmpty", "commitEmpty", "edit", "priority", "toggle"}
          => TextsOf(tasks) = TextsOf(lastOp.pre)
    /\ lastOp.kind = "commit" =>
          \A i \in DOMAIN tasks :
              IF tasks[i].id = lastOp.id
              THEN Trimmed(tasks[i].text) /\ tasks[i].text = Trim(lastOp.text)
              ELSE tasks[i].text = lastOp.pre[i].text

\* C10's case: a padded text was committed to a task.
C10_Witness ==
    /\ lastOp.kind = "commit"
    /\ lastOp.text = <<"b", Space>>
    /\ \E i \in DOMAIN tasks : tasks[i].id = lastOp.id /\ tasks[i].text = <<"b">>

\* C11: when the read fails or the blob does not parse, loadTasks ends with an
\* empty collection; when the blob parses, the collection becomes the parsed
\* sequence, record by record and key by key.
C11_LoadFailsSoft ==
    [][ (load.at \in {"read", "failed"} /\ load'.at = "done") =>
          /\ (load.at = "failed" \/ load.val.kind = "corrupt") => tasks' = <<>>
          /\ (load.at = "read" /\ load.val.kind = "json") =>
                /\ Len(tasks') = Len(load.val.items)
                /\ \A i \in DOMAIN tasks' :
                      \A key \in DOMAIN load.val.items[i] :
                          tasks'[i][key] = load.val.items[i][key] ]_vars

NoEditing(ts) == [i \in DOMAIN ts |-> [ts[i] EXCEPT !.isEditing = "undefined"]]

\* C13: when loadTasks resumes with the blob that a successful save of the
\* collection in memory wrote, the collection it sets equals that collection,
\* editing flags aside.
C13_RoundTrip ==
    [][ (/\ load.at = "read"
         /\ load'.at = "done"
         /\ load.val.kind = "json"
         /\ load.val = Stringify(tasks))
        => NoEditing(tasks') = NoEditing(tasks) ]_vars

\* C13's case: loadTasks has set the collection from a blob holding a task
\* with a notification id, and the store still holds that blob.
C13_Witness ==
    /\ lastOp.kind = "loadParsed"
    /\ lastOp.pre = tasks
    /\ tasks # <<>>
    /\ tasks[1].notificationId # NoHandle
    /\ stored = Stringify(tasks)

\* The value the priority button shows after one press, written out.
Succ(p) == CASE p = "low" -> "medium" [] p = "medium" -> "high" [] p = "high" -> "low"

\* C12: the priority button cycles low -> medium -> high -> low: the cycle step
\* applied three times gives back every starting priority, high steps to low,
\* and a press on a task leaves the tasks of that id at the successor of the
\* pressed task's priority.
C12_PriorityCycle ==
    /\ \A p \in Range(Priorities) :
          /\ NextPriority(p) = Succ(p)
          /\ NextPriority(NextPriority(NextPriority(p))) = p
    /\ NextPriority("high") = "low"
    /\ lastOp.kind = "priority" =>
          \E i \in DOMAIN lastOp.pre :
              /\ lastOp.pre[i].id = lastOp.id
              /\ \A j \in DOMAIN tasks :
                    tasks[j].id = lastOp.id =>
                        tasks[j].priority = Succ(lastOp.pre[i].priority)

C12_Witness ==
    /\ lastOp.kind = "priority"
    /\ \E i \in DOMAIN tasks :
          /\ tasks[i].id = lastOp.id
          /\ lastOp.pre[i].priority = "high"
          /\ tasks[i].priority = "low"

\* A step in which a handler is called or resumes, and which ends as `kind`.
Ends(kind) ==
    /\ nOps' = nOps + 1 \/ Len(inflight') < Len(inflight)
    /\ lastOp'.kind = kind

\* The steps that commit a mutation of the collection.
Mutations == {"add", "commit", "priority", "toggle", "remove"}

\* Every committed mutation issues one setItem call whose payload is the whole
\* new collection: the blob becomes that payload or, when the call fails, stays.
WriteAfterEveryMutation ==
    [][ (\E kind \in Mutations : Ends(kind)) =>
          /\ writes' = writes + 1
          /\ \/ stored' = Stringify(tasks') /\ saveErrors' = saveErrors
             \/ stored' = stored /\ saveErrors' = saveErrors + 1 ]_vars

\* C14: every committed mutation is followed by one write of the whole new
\* collection, in the order of the mutations, so once a write was issued and
\* every issued write has succeeded, the persisted blob parses to the
\* in-memory collection, editing flags apart.
C14_BlobFollowsMemory ==
    (writes > 0 /\ saveErrors = 0) =>
        /\ stored.kind = "json"
        /\ NoEditing(Parse(stored)) = NoEditing(tasks)

\* The notification ids held by the tasks of `id` in `ts`.
HandlesOf(ts, id) ==
    { ts[i].notificationId : i \in { j \in DOMAIN ts : ts[j].id = id } } \ {NoHandle}

\* C15: a remove of a task that holds a notification id asks for that id to be
\* cancelled while the task is still in memory and nothing has been written;
\* when the tasks then leave memory no further request is made, and every
\* notification id they held has been asked to be cancelled.  A remove of a
\* task without a notification id asks for nothing.
C15_CancelBeforeRemove ==
    [][ /\ Ends("removeCall") =>
              /\ Find(tasks, lastOp'.id).notificationId # NoHandle
              /\ cancelReqs' = Append(cancelReqs, Find(tasks, lastOp'.id).notificationId)
              /\ tasks' = tasks
              /\ writes' = writes
        /\ Ends("remove") =>
              /\ cancelReqs' = cancelReqs
              /\ HandlesOf(lastOp'.pre, lastOp'.id) \subseteq Range(cancelReqs) ]_vars

\* C16: an add of a text that does not trim to nothing makes one schedule
\* request; the request answers with a new notification id, which is then
\* outstanding, or with none when scheduling fails; the task the add appends
\* holds exactly that answer, and is appended in both cases.
C16_AddSchedulesOnce ==
    [][ /\ Ends("addCall") =>
              /\ schedReqs' = schedReqs + 1
              /\ Len(inflight') = Len(inflight) + 1
              /\ LET nid == inflight'[Len(inflight')].nid
                 IN  \/ nid = NoHandle /\ scheduled' = scheduled
                     \/ /\ nid # NoHandle
                        /\ nid \notin scheduled
                        /\ scheduled' = scheduled \cup {nid}
        /\ Ends("addEmpty") => schedReqs' = schedReqs
        /\ Ends("add") =>
              /\ schedReqs' = schedReqs
              /\ \E k \in DOMAIN inflight :
                    /\ inflight[k].kind = "add"
                    /\ inflight' = Remove(inflight, k)
                    /\ Len(tasks') = Len(inflight[k].tasks) + 1
                    /\ tasks'[Len(tasks')].notificationId = inflight[k].nid ]_vars

C16_Witness ==
    /\ lastOp.kind = "add"
    /\ schedReqs = 2
    /\ Len(tasks) = 2
    /\ tasks[1].notificationId # NoHandle
    /\ tasks[1].notificationId \in scheduled
    /\ tasks[2].notificationId = NoHandle

\* C17: a task holds a notification id only while that notification is
\* outstanding, scheduled and not cancelled, and no notification id is asked
\* to be cancelled twice.
C17_HandleOnlyWhileOutstanding ==
    /\ \A i \in DOMAIN tasks :
          tasks[i].notificationId # NoHandle => tasks[i].notificationId \in scheduled
    /\ \A h \in Range(cancelReqs) : Count(cancelReqs, h) = 1

\* Everything of a task but its editing flag.
Content(t) == [t EXCEPT !.isEditing = "undefined"]

\* C18: toggleEditMode(id, initialText) negates the editing flag of the tasks
\* of that id, sets the flag of every other task to false and the edit buffer
\* to initialText; the tasks keep their id, text, completed, priority and
\* notification id, their order and their number, and neither the blob nor
\* the scheduler is touched.
C18_EditModeFrame ==
    [][ Ends("edit") =>
          /\ Len(tasks') = Len(tasks)
          /\ \A i \in DOMAIN tasks :
                /\ Content(tasks'[i]) = Content(tasks[i])
                /\ tasks'[i].isEditing =
                      IF tasks[i].id # lastOp'.id THEN "false"
                      ELSE IF Truthy(tasks[i].isEditing) THEN "false" ELSE "true"
          /\ editingText' = lastOp'.text
          /\ UNCHANGED <<stored, writes, saveErrors, scheduled, issued,
                         schedReqs, cancelReqs>> ]_vars

C18_Witness ==
    /\ lastOp.kind = "edit"
    /\ editingText = lastOp.text
    /\ \E i, j \in DOMAIN tasks :
          /\ tasks[i].id = lastOp.id
          /\ tasks[i].isEditing = "true"
          /\ tasks[j].id # lastOp.id
          /\ tasks[j].isEditing = "false"
          /\ lastOp.pre[j].isEditing = "undefined"

\* C19: updateTaskPriority(id, priority) sets the priority of the tasks of
\* that id to the one value given and changes nothing else of any task, nor
\* their order or number; it makes no schedule and no cancel request.
C19_PriorityFrame ==
    [][ Ends("priority") =>
          /\ Len(tasks') = Len(tasks)
          /\ \E priority \in Range(Priorities) :
                \A i \in DOMAIN tasks :
                    tasks'[i] = IF tasks[i].id = lastOp'.id
                                THEN [tasks[i] EXCEPT !.priority = priority]
                                ELSE tasks[i]
          /\ UNCHANGED <<scheduled, issued, schedReqs, cancelReqs, inflight,
                         editingText, newTask>> ]_vars

C19_Witness ==
    /\ lastOp.kind = "priority"
    /\ \E i, j \in DOMAIN tasks :
          /\ tasks[i].id = lastOp.id
          /\ tasks[i].priority # lastOp.pre[i].priority
          /\ tasks[j].id # lastOp.id
          /\ tasks[j] = lastOp.pre[j]

\* The task `t` is in the collection after the step, editing flag apart.
Kept(t) == \E j \in DOMAIN tasks' : Content(tasks'[j]) = Content(t)

\* C20: no task is lost: a task in the collection stays in it as it is, editing
\* flag apart, through every step except an operation on its own id, and
\* through those its id stays in the collection unless the operation is a
\* remove; this under every interleaving of calls and continuations.
C20_NoTaskLost ==
    [][ \A i \in DOMAIN tasks :
          \/ Kept(tasks[i])
          \/ /\ lastOp'.id = tasks[i].id
             /\ \/ Ends("remove")
                \/ /\ Ends("toggle") \/ Ends("priority") \/ Ends("commit")
                   /\ HasId(tasks', tasks[i].id) ]_vars

====
